---- MODULE Spec2Model ----
(***************************************************************************)
(* maturin-nix: packaging of a pre-built cdylib into Python wheels.        *)
(* Model of src/main.rs: parse_abi3, get_tag_from_cargo_metadata, the      *)
(* build_wheel closure and the two branches of main.                       *)
(*                                                                         *)
(* Rust strings are sequences of one-character strings, so that            *)
(* strip_prefix, str::parse::<u32> and format! are computed, not assumed.  *)
(* Option<T> is a sequence of length at most one: None == <<>>,            *)
(* Some(x) == <<x>>.  A panic (expect / unwrap / index out of bounds) ends *)
(* the run in pc = "panicked" with the panic message in `panic`.           *)
(***************************************************************************)
EXTENDS Naturals, Integers, Sequences, FiniteSets, TLC

VARIABLES
    pc,                   \* position in main
    tag_with_python,      \* Info.tag_with_python
    cargo_metadata,       \* Option: the value returned by Info::cargo_metadata
    python_interpreters,  \* the Vec returned by PythonInterpreter::find_all
    idx,                  \* number of build_wheel calls started so far
    task,                 \* Option: arguments (tag, so_filename) of the running build_wheel
    panic,                \* Option: message of the panic that ended the run
    trace,                \* calls made to the external collaborators, in order
    open,                 \* WheelWriters created and not yet finished or dropped
    disk                  \* wheel files finalized in output_dir

vars == <<pc, tag_with_python, cargo_metadata, python_interpreters, idx, task,
          panic, trace, open, disk>>

-----------------------------------------------------------------------------
(* Bounds of the explored inputs *)

MaxFeatures == 2
MaxDeps == 2
MaxInterpreters == 3

SeqsUpTo(S, n) == UNION {[1..m -> S] : m \in 0..n}

-----------------------------------------------------------------------------
(* Strings *)

None == <<>>
Some(x) == <<x>>

abi3 == <<"a","b","i","3">>
abi3_py == <<"a","b","i","3","-","p","y">>
pyo3 == <<"p","y","o","3">>

f_abi3 == abi3
f_abi3_py37 == abi3_py \o <<"3","7">>
f_abi3_py03 == abi3_py \o <<"0","3">>
f_abi3_pyfoo == abi3_py \o <<"f","o","o">>
f_abi3_py == abi3_py
f_abi3_pybig == abi3_py \o <<"4","2","9","4","9","6","7","2","9","6">>
f_abi3_py_plus3 == abi3_py \o <<"+","3">>
f_foo == <<"f","o","o">>
f_bar == <<"b","a","r">>

Flags == {f_abi3, f_abi3_py37, f_abi3_py03, f_abi3_pyfoo, f_abi3_py,
          f_abi3_pybig, f_abi3_py_plus3, f_foo, f_bar}

FeatureLists == SeqsUpTo(Flags, MaxFeatures)

pyo3_macros == pyo3 \o <<"-","m","a","c","r","o","s">>
libc == <<"l","i","b","c">>

\* cargo_metadata::Dependency, reduced to the two fields main.rs reads.
\* A dependency list is explored as: dependencies of other names, then the
\* first pyo3 entry with any feature list, then further entries, among them
\* pyo3 entries with other features.
OtherDeps == {[name |-> pyo3_macros, features |-> <<f_abi3>>],
              [name |-> libc, features |-> <<>>]}

FirstPyo3Deps == {[name |-> pyo3, features |-> fl] : fl \in FeatureLists}

LaterDeps == OtherDeps \cup {[name |-> pyo3, features |-> <<>>],
                             [name |-> pyo3, features |-> <<f_abi3_py37>>]}

\* other dependencies, the first pyo3 entry, the entries behind it
DepList(before, first_pyo3, after) == before \o <<first_pyo3>> \o after

\* cargo_metadata::Metadata: root_package() is Some(package) or None
Metadata(root, dependencies) == [root |-> root, dependencies |-> dependencies]

module_name == <<"m","y","m","o","d">>
artifact_path == <<"a",".","s","o">>

Interpreters == {"cpython37", "cpython38"}

InterpreterLists == SeqsUpTo(Interpreters, MaxInterpreters)

-----------------------------------------------------------------------------
(* str::strip_prefix, str::parse::<u32> *)

strip_prefix(s, p) ==
    IF Len(s) >= Len(p) /\ SubSeq(s, 1, Len(p)) = p
    THEN Some(SubSeq(s, Len(p) + 1, Len(s)))
    ELSE None

\* u32::MAX = 4294967295 = U32MaxDiv10 * 10 + U32MaxMod10.  A parsed value n is
\* kept as the pair <<n \div 10, n % 10>>, which orders lexicographically as n.
U32MaxDiv10 == 429496729
U32MaxMod10 == 5

Err == <<-1, -1>>

IsDigit(c) == c \in {"0","1","2","3","4","5","6","7","8","9"}

DigitVal(c) ==
    CASE c = "0" -> 0 [] c = "1" -> 1 [] c = "2" -> 2 [] c = "3" -> 3
      [] c = "4" -> 4 [] c = "5" -> 5 [] c = "6" -> 6 [] c = "7" -> 7
      [] c = "8" -> 8 [] c = "9" -> 9

\* checked_mul(10) then checked_add(digit), digit by digit
RECURSIVE ParseDigits(_, _)
ParseDigits(s, acc) ==
    IF s = <<>> THEN acc
    ELSE IF ~IsDigit(Head(s)) THEN Err
    ELSE IF acc[1] > U32MaxDiv10 \div 10 THEN Err
    ELSE LET n == acc[1] * 10 + acc[2]
             d == DigitVal(Head(s))
         IN  IF n > U32MaxDiv10 \/ (n = U32MaxDiv10 /\ d > U32MaxMod10)
             THEN Err
             ELSE ParseDigits(Tail(s), <<n, d>>)

\* version_string.parse::<u32>(): Err for "", "+", a non-digit, or overflow
parse_u32(s) ==
    IF s = <<>> THEN Err
    ELSE IF Head(s) = "+"
         THEN IF Tail(s) = <<>> THEN Err ELSE ParseDigits(Tail(s), <<0, 0>>)
         ELSE ParseDigits(s, <<0, 0>>)

\* Ord on the parsed keys
KeyLess(a, b) == a[1] < b[1] \/ (a[1] = b[1] /\ a[2] < b[2])

-----------------------------------------------------------------------------
(* fn parse_abi3 *)

\* trim_start_matches in place of strip_prefix: a flag without the prefix is
\* returned whole instead of None
parse_abi3_trim_start(abi3_feature) ==
    IF abi3_feature = abi3
    THEN Some(<<"3">>)
    ELSE IF strip_prefix(abi3_feature, abi3_py) # None
         THEN strip_prefix(abi3_feature, abi3_py)
         ELSE Some(abi3_feature)

parse_abi3(abi3_feature) ==
    IF abi3_feature = abi3
    THEN Some(<<"3">>)
    ELSE strip_prefix(abi3_feature, abi3_py)

\* features.iter().filter_map(|feature| parse_abi3(feature)).collect()
RECURSIVE filter_map_parse_abi3(_)
filter_map_parse_abi3(features) ==
    IF features = <<>> THEN <<>>
    ELSE parse_abi3(Head(features)) \o filter_map_parse_abi3(Tail(features))

-----------------------------------------------------------------------------
(* slice::sort_by_key with the key of line 95 *)

\* insert x behind every element whose key is not greater: the sort is stable
RECURSIVE InsertByKey(_, _)
InsertByKey(x, sorted) ==
    IF sorted = <<>> THEN <<x>>
    ELSE IF KeyLess(parse_u32(x), parse_u32(Head(sorted)))
         THEN <<x>> \o sorted
         ELSE <<Head(sorted)>> \o InsertByKey(x, Tail(sorted))

RECURSIVE StableSort(_, _)
StableSort(v, sorted) ==
    IF v = <<>> THEN sorted
    ELSE StableSort(Tail(v), InsertByKey(Head(v), sorted))

\* sort_by_key with the comparison reversed (largest key first)
sort_by_key_reversed(v) ==
    IF Len(v) < 2 THEN [panicked |-> FALSE, v |-> v]
    ELSE IF \E i \in 1..Len(v) : parse_u32(v[i]) = Err
         THEN [panicked |-> TRUE, v |-> v]
         ELSE LET a == StableSort(v, <<>>)
              IN  [panicked |-> FALSE, v |-> [i \in 1..Len(a) |-> a[Len(a) + 1 - i]]]

\* the keys are computed and checked but the vector is left in list order
sort_by_key_unsorted(v) ==
    IF Len(v) < 2 THEN [panicked |-> FALSE, v |-> v]
    ELSE IF \E i \in 1..Len(v) : parse_u32(v[i]) = Err
         THEN [panicked |-> TRUE, v |-> v]
         ELSE [panicked |-> FALSE, v |-> v]

\* The key closure runs only inside comparisons: a slice of fewer than two
\* elements is returned without any key being computed; with two or more,
\* every element is compared at least once, so every key is computed and
\* expect("version string") panics on the first Err.
sort_by_key(v) ==
    IF Len(v) < 2 THEN [panicked |-> FALSE, v |-> v]
    ELSE IF \E i \in 1..Len(v) : parse_u32(v[i]) = Err
         THEN [panicked |-> TRUE, v |-> v]
         ELSE [panicked |-> FALSE, v |-> StableSort(v, <<>>)]

-----------------------------------------------------------------------------
(* fn get_tag_from_cargo_metadata *)

\* find with starts_with("pyo3") in place of the equality
RECURSIVE find_pyo3_starts_with(_)
find_pyo3_starts_with(dependencies) ==
    IF dependencies = <<>> THEN None
    ELSE IF strip_prefix(Head(dependencies).name, pyo3) # None
         THEN Some(Head(dependencies))
         ELSE find_pyo3_starts_with(Tail(dependencies))

\* dependencies.iter().find(|pkg| pkg.name == "pyo3")
RECURSIVE find_pyo3(_)
find_pyo3(dependencies) ==
    IF dependencies = <<>> THEN None
    ELSE IF Head(dependencies).name = pyo3 THEN Some(Head(dependencies))
    ELSE find_pyo3(Tail(dependencies))

format_tag(min_abi3_version_string) ==
    <<"c","p">> \o min_abi3_version_string
      \o <<"-">> \o abi3
      \o <<"-","l","i","n","u","x","_","x","8","6","_","6","4">>

Panicked(msg, stage) == [ok |-> FALSE, panic |-> [msg |-> msg, at |-> stage], tag |-> <<>>]
Returned(tag) == [ok |-> TRUE, panic |-> [msg |-> "", at |-> "return"], tag |-> tag]

\* panic.at names the statement at which the function stops
get_tag_from_cargo_metadata(md) ==
    IF ~md.root THEN Panicked("root package", "root_package")
    ELSE LET pyo3_package == find_pyo3(md.dependencies)
         IN  IF pyo3_package = None THEN Panicked("pyo3", "find")
             ELSE LET abi3_versions == filter_map_parse_abi3(pyo3_package[1].features)
                      sorted == sort_by_key(abi3_versions)
                  IN  IF sorted.panicked THEN Panicked("version string", "sort")
                      ELSE IF Len(sorted.v) = 0
                           THEN Panicked("index out of bounds", "index")
                           ELSE Returned(format_tag(sorted.v[1]))

-----------------------------------------------------------------------------
(* External collaborators (maturin) *)

\* PythonInterpreter::get_tag(&manylinux), get_library_name(&module_name)
get_tag(python_interpreter) == <<"tag", python_interpreter>>
get_library_name(python_interpreter, base) == <<"lib", python_interpreter, base>>

\* path returned by WheelWriter::finish for a wheel created with this tag
WheelPath(tag) == <<"whl", tag>>

\* one call of a collaborator: the build_wheel call it belongs to (0 outside
\* build_wheel), the tag and file arguments, and whether it returned Ok or Err
Call(op, k, tag, file, res) == [op |-> op, k |-> k, tag |-> tag, file |-> file, res |-> res]

WriterOps == <<"new", "add_file", "finish", "report">>

-----------------------------------------------------------------------------
(* main *)

Init ==
    /\ pc = "main"
    /\ tag_with_python \in BOOLEAN
    /\ cargo_metadata = None
    /\ python_interpreters = <<>>
    /\ idx = 0
    /\ task = None
    /\ panic = None
    /\ trace = <<>>
    /\ open = {}
    /\ disk = {}

\* expect / unwrap on an Err or None: the process ends, the writer is dropped
Abort(msg, stage) ==
    /\ pc' = "panicked"
    /\ panic' = Some([msg |-> msg, at |-> stage])
    /\ open' = {}

\* Info::cargo_metadata (line 156, lines 36-42): the command fails, or returns
\* metadata without a root package, with no pyo3 dependency, or with one
CargoMetadata ==
    /\ pc = "main"
    /\ ~tag_with_python
    /\ \/ /\ trace' = Append(trace, Call("cargo_metadata", 0, <<>>, <<>>, "err"))
          /\ Abort("unwrap", "cargo_metadata")
          /\ UNCHANGED cargo_metadata
       \/ /\ trace' = Append(trace, Call("cargo_metadata", 0, <<>>, <<>>, "ok"))
          /\ \/ cargo_metadata' = Some(Metadata(FALSE, <<>>))
             \/ \E ds \in SeqsUpTo(OtherDeps, MaxDeps) :
                   cargo_metadata' = Some(Metadata(TRUE, ds))
             \/ \E nb \in 0..(MaxDeps - 1) :
                   \E b \in [1..nb -> OtherDeps], p \in FirstPyo3Deps,
                      a \in SeqsUpTo(LaterDeps, MaxDeps - 1 - nb) :
                       cargo_metadata' = Some(Metadata(TRUE, DepList(b, p, a)))
          /\ pc' = "get_tag"
          /\ UNCHANGED <<panic, open>>
    /\ UNCHANGED <<tag_with_python, python_interpreters, idx, task, disk>>

\* get_tag_from_cargo_metadata and the call of build_wheel (lines 156-159)
GetTag ==
    /\ pc = "get_tag"
    /\ LET r == get_tag_from_cargo_metadata(cargo_metadata[1])
       IN  IF r.ok
           THEN /\ task' = Some([tag |-> r.tag,
                                 so_filename |-> module_name \o <<".","s","o">>])
                /\ idx' = idx + 1
                /\ pc' = "build_wheel"
                /\ UNCHANGED <<panic, open>>
           ELSE /\ Abort(r.panic.msg, r.panic.at)
                /\ UNCHANGED <<task, idx>>
    /\ UNCHANGED <<tag_with_python, cargo_metadata, python_interpreters, trace, disk>>

\* FindAll without the test of info.tag_with_python
FindAll_unguarded ==
    /\ pc = "main"
    /\ \/ /\ trace' = Append(trace, Call("find_all", 0, <<>>, <<>>, "err"))
          /\ Abort("python_interpreter", "find_all")
          /\ UNCHANGED python_interpreters
       \/ /\ trace' = Append(trace, Call("find_all", 0, <<>>, <<>>, "ok"))
          /\ python_interpreters' \in InterpreterLists
          /\ pc' = "loop"
          /\ UNCHANGED <<panic, open>>
    /\ UNCHANGED <<tag_with_python, cargo_metadata, idx, task, disk>>

\* PythonInterpreter::find_all and the "Found" loop (lines 133-146)
FindAll ==
    /\ pc = "main"
    /\ tag_with_python
    /\ \/ /\ trace' = Append(trace, Call("find_all", 0, <<>>, <<>>, "err"))
          /\ Abort("python_interpreter", "find_all")
          /\ UNCHANGED python_interpreters
       \/ /\ trace' = Append(trace, Call("find_all", 0, <<>>, <<>>, "ok"))
          /\ python_interpreters' \in InterpreterLists
          /\ pc' = "loop"
          /\ UNCHANGED <<panic, open>>
    /\ UNCHANGED <<tag_with_python, cargo_metadata, idx, task, disk>>

\* the loop walking the interpreters from the last to the first
LoopNext_reversed ==
    /\ pc = "loop"
    /\ IF idx < Len(python_interpreters)
       THEN LET python_interpreter == python_interpreters[Len(python_interpreters) - idx]
            IN  /\ task' = Some([tag |-> get_tag(python_interpreter),
                                 so_filename |-> get_library_name(python_interpreter,
                                                                  module_name)])
                /\ idx' = idx + 1
                /\ pc' = "build_wheel"
       ELSE /\ pc' = "done"
            /\ UNCHANGED <<task, idx>>
    /\ UNCHANGED <<tag_with_python, cargo_metadata, python_interpreters, panic, trace,
                   open, disk>>

\* the loop preceded by an expect that the list is not empty
LoopNext_expect_nonempty ==
    /\ pc = "loop"
    /\ IF python_interpreters = <<>>
       THEN /\ Abort("python_interpreter", "find_all")
            /\ UNCHANGED <<task, idx>>
       ELSE /\ IF idx < Len(python_interpreters)
               THEN /\ task' = Some([tag |-> get_tag(python_interpreters[idx + 1]),
                                     so_filename |-> get_library_name(
                                                        python_interpreters[idx + 1],
                                                        module_name)])
                    /\ idx' = idx + 1
                    /\ pc' = "build_wheel"
               ELSE /\ pc' = "done"
                    /\ UNCHANGED <<task, idx>>
            /\ UNCHANGED <<panic, open>>
    /\ UNCHANGED <<tag_with_python, cargo_metadata, python_interpreters, trace, disk>>

\* for python_interpreter in python_interpreters (lines 148-154)
LoopNext ==
    /\ pc = "loop"
    /\ IF idx < Len(python_interpreters)
       THEN /\ task' = Some([tag |-> get_tag(python_interpreters[idx + 1]),
                             so_filename |-> get_library_name(python_interpreters[idx + 1],
                                                              module_name)])
            /\ idx' = idx + 1
            /\ pc' = "build_wheel"
       ELSE /\ pc' = "done"
            /\ UNCHANGED <<task, idx>>
    /\ UNCHANGED <<tag_with_python, cargo_metadata, python_interpreters, panic, trace,
                   open, disk>>

\* build_wheel: info.meta21() and WheelWriter::new (lines 114-122).  The
\* temporary returned by info.cargo_metadata() is gone once build_wheel runs.
WheelWriterNew ==
    /\ pc = "build_wheel"
    /\ cargo_metadata' = None
    /\ \/ /\ trace' = Append(trace, Call("meta21", idx, <<>>, <<>>, "err"))
          /\ \E msg \in {"manifest_file", "metadata21"} : Abort(msg, "meta21")
       \/ /\ trace' = trace \o <<Call("meta21", idx, <<>>, <<>>, "ok"),
                                 Call("new", idx, task[1].tag, <<>>, "err")>>
          /\ Abort("writer", "new")
       \/ /\ trace' = trace \o <<Call("meta21", idx, <<>>, <<>>, "ok"),
                                 Call("new", idx, task[1].tag, <<>>, "ok")>>
          /\ open' = open \cup {idx}
          /\ pc' = "add_file"
          /\ UNCHANGED panic
    /\ UNCHANGED <<tag_with_python, python_interpreters, idx, task, disk>>

\* add_file whose Result is dropped instead of passed to expect
AddFile_ignore_err ==
    /\ pc = "add_file"
    /\ \E res \in {"ok", "err"} :
          trace' = Append(trace, Call("add_file", idx, task[1].tag,
                                      <<task[1].so_filename, artifact_path>>, res))
    /\ pc' = "finish"
    /\ UNCHANGED <<panic, open>>
    /\ UNCHANGED <<tag_with_python, cargo_metadata, python_interpreters, idx, task, disk>>

\* build_wheel without the call of writer.finish
AddFile_skip_finish ==
    /\ pc = "add_file"
    /\ \/ /\ trace' = Append(trace, Call("add_file", idx, task[1].tag,
                                         <<task[1].so_filename, artifact_path>>, "err"))
          /\ Abort("add files", "add_file")
       \/ /\ trace' = Append(trace, Call("add_file", idx, task[1].tag,
                                         <<task[1].so_filename, artifact_path>>, "ok"))
          /\ pc' = "report"
          /\ UNCHANGED <<panic, open>>
    /\ UNCHANGED <<tag_with_python, cargo_metadata, python_interpreters, idx, task, disk>>

\* build_wheel: writer.add_file (lines 124-126)
AddFile ==
    /\ pc = "add_file"
    /\ \/ /\ trace' = Append(trace, Call("add_file", idx, task[1].tag,
                                         <<task[1].so_filename, artifact_path>>, "err"))
          /\ Abort("add files", "add_file")
       \/ /\ trace' = Append(trace, Call("add_file", idx, task[1].tag,
                                         <<task[1].so_filename, artifact_path>>, "ok"))
          /\ pc' = "finish"
          /\ UNCHANGED <<panic, open>>
    /\ UNCHANGED <<tag_with_python, cargo_metadata, python_interpreters, idx, task, disk>>

\* build_wheel: writer.finish (line 128)
Finish ==
    /\ pc = "finish"
    /\ \/ /\ trace' = Append(trace, Call("finish", idx, task[1].tag, <<>>, "err"))
          /\ Abort("writer finish", "finish")
          /\ UNCHANGED disk
       \/ /\ trace' = Append(trace, Call("finish", idx, task[1].tag, <<>>, "ok"))
          /\ disk' = disk \cup {WheelPath(task[1].tag)}
          /\ open' = open \ {idx}
          /\ pc' = "report"
          /\ UNCHANGED panic
    /\ UNCHANGED <<tag_with_python, cargo_metadata, python_interpreters, idx, task>>

\* build_wheel: eprintln of the wheel path, then return to the caller (line 130)
Report ==
    /\ pc = "report"
    /\ trace' = Append(trace, Call("report", idx, task[1].tag, WheelPath(task[1].tag), "ok"))
    /\ task' = None
    /\ pc' = IF tag_with_python THEN "loop" ELSE "done"
    /\ UNCHANGED <<tag_with_python, cargo_metadata, python_interpreters, idx, panic,
                   open, disk>>

Next ==
    \/ CargoMetadata
    \/ GetTag
    \/ FindAll
    \/ LoopNext
    \/ WheelWriterNew
    \/ AddFile
    \/ Finish
    \/ Report

Spec == Init /\ [][Next]_vars

TypeOK ==
    /\ pc \in {"main", "get_tag", "loop", "build_wheel", "add_file", "finish",
               "report", "done", "panicked"}
    /\ tag_with_python \in BOOLEAN
    /\ idx \in 0..(MaxInterpreters + 1)
    /\ Len(panic) <= 1
    /\ Len(task) <= 1
    /\ Len(cargo_metadata) <= 1

-----------------------------------------------------------------------------
(* Vocabulary of the properties, stated without the operators of the model *)

HasPrefix(s, p) == Len(s) >= Len(p) /\ \A i \in 1..Len(p) : s[i] = p[i]
DropFirst(s, n) == [i \in 1..(Len(s) - n) |-> s[i + n]]

DigitChars == <<"0","1","2","3","4","5","6","7","8","9">>
AllDigits(s) == Len(s) > 0 /\ \A i \in 1..Len(s) : \E d \in 1..10 : s[i] = DigitChars[d]
DigitOrd(c) == CHOOSE d \in 1..10 : DigitChars[d] = c

RECURSIVE StripZeros(_)
StripZeros(s) ==
    IF Len(s) > 1 /\ s[1] = "0" THEN StripZeros(DropFirst(s, 1)) ELSE s

\* numeric order of two strings of decimal digits
DecLess(a, b) ==
    LET x == StripZeros(a)
        y == StripZeros(b)
    IN  \/ Len(x) < Len(y)
        \/ /\ Len(x) = Len(y)
           /\ \E i \in 1..Len(x) : /\ DigitOrd(x[i]) < DigitOrd(y[i])
                                   /\ \A j \in 1..(i - 1) : x[j] = y[j]

U32MaxDigits == <<"4","2","9","4","9","6","7","2","9","5">>
FitsU32(s) == AllDigits(s) /\ ~DecLess(U32MaxDigits, s)

\* a flag that marks the stable ABI, and one whose version is a decimal number
Abi3Marked(f) == f = abi3 \/ HasPrefix(f, abi3_py)
WellFormed(f) == f = abi3 \/ (HasPrefix(f, abi3_py) /\ AllDigits(DropFirst(f, Len(abi3_py))))
VersionText(f) == IF f = abi3 THEN <<"3">> ELSE DropFirst(f, Len(abi3_py))

TagSuffix == <<"-","a","b","i","3","-","l","i","n","u","x","_","x","8","6","_","6","4">>
TagText(version) == <<"c","p">> \o version \o TagSuffix
VersionOfTag(tag) == SubSeq(tag, 3, Len(tag) - Len(TagSuffix))

HasPyo3(md) == \E i \in 1..Len(md.dependencies) : md.dependencies[i].name = pyo3
Pyo3Index(md) ==
    CHOOSE i \in 1..Len(md.dependencies) :
        /\ md.dependencies[i].name = pyo3
        /\ \A j \in 1..(i - 1) : md.dependencies[j].name # pyo3

\* the manifest path has resolved (or failed to resolve) the tag of the
\* metadata still held in cargo_metadata
Resolved == cargo_metadata # None /\ pc \in {"build_wheel", "panicked"}
ResolvedPyo3 == Resolved /\ cargo_metadata[1].root /\ HasPyo3(cargo_metadata[1])
F == cargo_metadata[1].dependencies[Pyo3Index(cargo_metadata[1])].features

WriterCalls == SelectSeq(trace, LAMBDA c : c.op \in {"new", "add_file", "finish", "report"})

\* indices of the well-formed flags of least numeric version
MinWellFormed(fl) ==
    {i \in 1..Len(fl) : /\ WellFormed(fl[i])
                        /\ \A j \in 1..Len(fl) :
                              WellFormed(fl[j]) => ~DecLess(VersionText(fl[j]), VersionText(fl[i]))}
FirstMinWellFormed(fl) == CHOOSE i \in MinWellFormed(fl) : \A j \in MinWellFormed(fl) : i <= j

-----------------------------------------------------------------------------
(* C1 *)

\* C1 as stated: whenever the feature list of the pyo3 dependency holds at
\* least one well-formed token, the tagger returns cp<m>-abi3-linux_x86_64 for
\* a well-formed token of numerically least version m.
C1_AsStated ==
    (ResolvedPyo3 /\ \E i \in 1..Len(F) : WellFormed(F[i]))
        => /\ pc = "build_wheel"
           /\ \E i \in MinWellFormed(F) : task[1].tag = TagText(VersionText(F[i]))

AllMarkedParse(fl) ==
    \A i \in 1..Len(fl) :
        HasPrefix(fl[i], abi3_py) => FitsU32(DropFirst(fl[i], Len(abi3_py)))

\* C1 (amended): when the feature list of the first pyo3 dependency holds at
\* least one well-formed token and every abi3-py-prefixed flag has a suffix of
\* decimal digits that fits u32, the tagger returns cp<m>-abi3-linux_x86_64,
\* where m is the version text of the first flag, in list order, among the
\* well-formed flags of numerically least version; flags that are neither
\* abi3 nor abi3-py-prefixed do not enter the result.
C1_MinimumTag ==
    (ResolvedPyo3 /\ (\E i \in 1..Len(F) : WellFormed(F[i])) /\ AllMarkedParse(F))
        => /\ pc = "build_wheel"
           /\ task[1].tag = TagText(VersionText(F[FirstMinWellFormed(F)]))
           /\ task[1].so_filename = module_name \o <<".","s","o">>

\* the least version is not the first flag, and an unmarked flag is present
C1_Witness ==
    /\ ResolvedPyo3
    /\ pc = "build_wheel"
    /\ AllMarkedParse(F)
    /\ \E i, j \in 1..Len(F) :
          /\ i < j
          /\ WellFormed(F[i]) /\ WellFormed(F[j])
          /\ DecLess(VersionText(F[j]), VersionText(F[i]))

-----------------------------------------------------------------------------
(* C2 *)

NoWriterCalls == WriterCalls = <<>>

\* C2: in the manifest path, when no dependency of the root package is named
\* exactly pyo3, tag resolution panics at the lookup (expect("pyo3")), no
\* build_wheel call is made and the wheel writer is never invoked.
C2_MissingPyo3 ==
    /\ (Resolved /\ cargo_metadata[1].root /\ ~HasPyo3(cargo_metadata[1]))
          => /\ pc = "panicked"
             /\ panic = Some([msg |-> "pyo3", at |-> "find"])
    /\ (panic = Some([msg |-> "pyo3", at |-> "find"]))
          => /\ pc = "panicked"
             /\ task = None /\ idx = 0
             /\ NoWriterCalls /\ open = {} /\ disk = {}

\* a dependency whose name merely starts with pyo3 is present
C2_Witness ==
    /\ Resolved /\ cargo_metadata[1].root /\ ~HasPyo3(cargo_metadata[1])
    /\ \E i \in 1..Len(cargo_metadata[1].dependencies) :
          HasPrefix(cargo_metadata[1].dependencies[i].name, pyo3)
    /\ pc = "panicked"

-----------------------------------------------------------------------------
(* C3 *)

NoAbi3Flags == ResolvedPyo3 /\ \A i \in 1..Len(F) : ~Abi3Marked(F[i])

\* C3 as stated: with no abi3 / abi3-py flag on pyo3 the failure is raised at
\* the collection step, before the sort and the minimum selection.
C3_AsStated ==
    NoAbi3Flags => (pc = "panicked" /\ panic # None /\ panic[1].at = "collect")

\* C3 (amended): with no abi3 / abi3-py flag on pyo3 (the empty flag list
\* included) the collection and the sort of the empty vector succeed, and the
\* tagger panics at the minimum selection abi3_versions[0] (index out of
\* bounds); no tag is returned and no wheel is built.
C3_NoAbi3FlagsFails ==
    NoAbi3Flags
        => /\ pc = "panicked"
           /\ panic = Some([msg |-> "index out of bounds", at |-> "index"])
           /\ task = None /\ idx = 0 /\ NoWriterCalls

C3_Witness == NoAbi3Flags /\ Len(F) = 2 /\ F[1] # F[2] /\ pc = "panicked"

-----------------------------------------------------------------------------
(* C4 *)

\* C4 as stated: whenever a collected token is not an unsigned integer the
\* tagger fails and formats no tag, whatever the number of collected tokens.
C4_AsStated ==
    (ResolvedPyo3 /\ \E i \in 1..Len(F) :
                        /\ HasPrefix(F[i], abi3_py)
                        /\ ~AllDigits(DropFirst(F[i], Len(abi3_py))))
        => (pc = "panicked" /\ task = None)

-----------------------------------------------------------------------------
(* C10 *)

PermsOf(fl) ==
    IF Len(fl) = 0 THEN {fl}
    ELSE {[i \in 1..Len(fl) |-> fl[p[i]]] : p \in Permutations(1..Len(fl))}

WithFeatures(md, fl) == [md EXCEPT !.dependencies[Pyo3Index(md)].features = fl]

\* the digits of an unsigned integer written with or without a leading +
Unsigned(s) == IF Len(s) > 1 /\ s[1] = "+" THEN DropFirst(s, 1) ELSE s
SameValue(a, b) ==
    \/ a = b
    \/ /\ AllDigits(Unsigned(a)) /\ AllDigits(Unsigned(b))
       /\ StripZeros(Unsigned(a)) = StripZeros(Unsigned(b))

\* C10 as stated: every permutation of the flag list resolves to the same
\* tag string.
C10_AsStated ==
    ResolvedPyo3 =>
        \A fl \in PermsOf(F) :
            LET r == get_tag_from_cargo_metadata(WithFeatures(cargo_metadata[1], fl))
            IN  /\ r.ok <=> pc = "build_wheel"
                /\ r.ok => r.tag = task[1].tag

\* C10 (amended): ties can occur among the collected tokens (abi3 gives "3",
\* abi3-py03 gives "03"), and the stable sort then keeps the first in list
\* order; every permutation of the flag list fails or succeeds alike, and on
\* success the version in the tag is the same text or has the same
\* unsigned-integer value, though not always the same text.
C10_PermutationValue ==
    ResolvedPyo3 =>
        \A fl \in PermsOf(F) :
            LET r == get_tag_from_cargo_metadata(WithFeatures(cargo_metadata[1], fl))
            IN  /\ r.ok <=> pc = "build_wheel"
                /\ r.ok => SameValue(VersionOfTag(r.tag), VersionOfTag(task[1].tag))

\* a permutation of the flags resolves to another tag text
C10_Witness ==
    /\ ResolvedPyo3
    /\ pc = "build_wheel"
    /\ \E fl \in PermsOf(F) :
          get_tag_from_cargo_metadata(WithFeatures(cargo_metadata[1], fl)).tag # task[1].tag

-----------------------------------------------------------------------------
(* C5 *)

\* C5: when a writer step (new, add_file, finish) of the N-th build_wheel call
\* fails, that call is the last one made to any collaborator, the run has
\* ended in a panic, every earlier task 1..N-1 has a finish that returned and
\* its wheel is on disk, and no call belongs to a task beyond N.
C5_StopAtFirstFailure ==
    \A i \in 1..Len(trace) :
        (trace[i].res = "err" /\ trace[i].op \in {"new", "add_file", "finish"})
            => LET N == trace[i].k
               IN  /\ i = Len(trace)
                   /\ pc = "panicked" /\ panic # None
                   /\ idx = N
                   /\ \A c \in 1..Len(trace) : trace[c].k <= N
                   /\ \A j \in 1..(N - 1) :
                         \E c \in 1..Len(trace) :
                             /\ trace[c].op = "finish" /\ trace[c].k = j
                             /\ trace[c].res = "ok"
                             /\ WheelPath(trace[c].tag) \in disk

\* the second of three tasks failed in the writer
C5_Witness ==
    /\ Len(python_interpreters) = 3
    /\ pc = "panicked"
    /\ idx = 2
    /\ trace[Len(trace)].op \in {"new", "add_file", "finish"}
    /\ trace[Len(trace)].res = "err"
    /\ disk # {}

-----------------------------------------------------------------------------
(* C6 *)

NewCalls == SelectSeq(trace, LAMBDA c : c.op = "new")
AddFileCalls == SelectSeq(trace, LAMBDA c : c.op = "add_file")
ReportCalls == SelectSeq(trace, LAMBDA c : c.op = "report")

\* C6: in the probe path the k-th wheel is opened with the tag of the k-th
\* discovered interpreter and filled under its library name, and a run that
\* completes has built exactly one wheel per interpreter, in discovery order.
C6_OnePerInterpreter ==
    tag_with_python =>
        /\ Len(NewCalls) <= Len(python_interpreters)
        /\ \A k \in 1..Len(NewCalls) :
              /\ NewCalls[k].k = k
              /\ NewCalls[k].tag = get_tag(python_interpreters[k])
        /\ \A k \in 1..Len(AddFileCalls) :
              /\ AddFileCalls[k].k = k
              /\ AddFileCalls[k].file =
                    <<get_library_name(python_interpreters[k], module_name), artifact_path>>
        /\ pc = "done" => /\ Len(NewCalls) = Len(python_interpreters)
                          /\ Len(ReportCalls) = Len(python_interpreters)

\* three interpreters, the first and the last the same, all built
C6_Witness ==
    /\ tag_with_python
    /\ pc = "done"
    /\ Len(python_interpreters) = 3
    /\ python_interpreters[1] = python_interpreters[3]
    /\ python_interpreters[1] # python_interpreters[2]

-----------------------------------------------------------------------------
(* C7 *)

CallsOf(op) == SelectSeq(trace, LAMBDA c : c.op = op)

\* C7: the flag selects the one strategy that runs: unset, dependency
\* metadata is read and interpreter discovery is never called; set, discovery
\* is called and dependency metadata is never read; never both.
C7_OneStrategy ==
    /\ tag_with_python => (CallsOf("cargo_metadata") = <<>> /\ cargo_metadata = None)
    /\ ~tag_with_python => (CallsOf("find_all") = <<>> /\ python_interpreters = <<>>)
    /\ pc # "main" => Len(CallsOf("cargo_metadata")) + Len(CallsOf("find_all")) = 1

\* a manifest-driven run that has finalized its wheel
C7_Witness == ~tag_with_python /\ pc = "done" /\ disk # {}

-----------------------------------------------------------------------------
(* C8 *)

-----------------------------------------------------------------------------
(* C9 *)

EmptyDiscovery ==
    /\ tag_with_python
    /\ python_interpreters = <<>>
    /\ \E i \in 1..Len(trace) : trace[i].op = "find_all" /\ trace[i].res = "ok"

\* C9: when discovery returns the empty list, no task is produced, the writer
\* is never invoked, nothing panics and the run ends normally.
C9_EmptyDiscoveryIsNoError ==
    EmptyDiscovery
        => /\ pc \in {"loop", "done"}
           /\ panic = None
           /\ task = None /\ idx = 0
           /\ NoWriterCalls /\ disk = {}

C9_Witness == EmptyDiscovery /\ pc = "done"

====
